---- MODULE Spec2Model ----
(***************************************************************************)
(* Health-check tool: configuration loading, the bounded-concurrency       *)
(* dispatcher (fetchHealthDataWithDelayAndConcurrency), the consumer loop  *)
(* of main and the aggregation fold (aggregateData).                       *)
(*                                                                         *)
(* Strings are sequences of one-character strings, so that prefix tests,   *)
(* concatenation and number parsing are computed, not assumed.  int64      *)
(* values are four 16-bit limbs, least significant first, in two's         *)
(* complement, so that += has the width it has in the program.             *)
(***************************************************************************)
EXTENDS Integers, Sequences, FiniteSets, TLC

----------------------------------------------------------------------------
(* Bounds of the model                                                     *)

MaxHosts == 2

MaxData == 3

----------------------------------------------------------------------------
(* Strings                                                                 *)

HasPrefix(s, p) ==
    /\ Len(s) >= Len(p)
    /\ SubSeq(s, 1, Len(p)) = p

SchemeHTTP == <<"h", "t", "t", "p", ":", "/", "/">>

SchemeHTTPS == <<"h", "t", "t", "p", "s", ":", "/", "/">>

HealthzPath == <<"/", "h", "e", "a", "l", "t", "h", "z">>

Digits == {"0", "1", "2", "3", "4", "5", "6", "7", "8", "9"}

DigitVal(c) ==
    CASE c = "0" -> 0 [] c = "1" -> 1 [] c = "2" -> 2 [] c = "3" -> 3
      [] c = "4" -> 4 [] c = "5" -> 5 [] c = "6" -> 6 [] c = "7" -> 7
      [] c = "8" -> 8 [] c = "9" -> 9

RECURSIVE DecimalValue(_, _)
DecimalValue(s, acc) ==
    IF s = <<>> THEN acc
    ELSE DecimalValue(Tail(s), acc * 10 + DigitVal(Head(s)))

\* strconv.Atoi: an optional sign, then one or more decimal digits.
Atoi(s) ==
    LET signed == s # <<>> /\ Head(s) \in {"+", "-"}
        body   == IF signed THEN Tail(s) ELSE s
        ok     == body # <<>> /\ \A i \in 1..Len(body) : body[i] \in Digits
        mag    == IF ok THEN DecimalValue(body, 0) ELSE 0
    IN  [err |-> ~ok,
         v   |-> IF signed /\ Head(s) = "-" THEN 0 - mag ELSE mag]

----------------------------------------------------------------------------
(* Configuration (durations in milliseconds)                               *)

defaultHTTPTimeout == 10000

defaultRequestDelay == 200

defaultMaxConcurrency == 5

NewDefaultConfig ==
    [HTTPTimeout    |-> defaultHTTPTimeout,
     RequestDelay   |-> defaultRequestDelay,
     MaxConcurrency |-> defaultMaxConcurrency]

\* Mutant: an HTTP_TIMEOUT that does not parse ends the loading.
LoadConfigFromEnvStopOnError(e) ==
    LET c0 == NewDefaultConfig
        t  == Atoi(e.HTTP_TIMEOUT)
        c1 == IF e.HTTP_TIMEOUT # <<>> /\ ~t.err
              THEN [c0 EXCEPT !.HTTPTimeout = t.v * 1000] ELSE c0
        d  == Atoi(e.REQUEST_DELAY)
        c2 == IF e.REQUEST_DELAY # <<>> /\ ~d.err
              THEN [c1 EXCEPT !.RequestDelay = d.v] ELSE c1
        m  == Atoi(e.MAX_CONCURRENCY)
        c3 == IF e.MAX_CONCURRENCY # <<>> /\ ~m.err
              THEN [c2 EXCEPT !.MaxConcurrency = m.v] ELSE c2
    IN  IF e.HTTP_TIMEOUT # <<>> /\ t.err THEN c0 ELSE c3

\* An unset variable reads as the empty string (os.Getenv).
LoadConfigFromEnv(e) ==
    LET c0 == NewDefaultConfig
        t  == Atoi(e.HTTP_TIMEOUT)
        c1 == IF e.HTTP_TIMEOUT # <<>> /\ ~t.err
              THEN [c0 EXCEPT !.HTTPTimeout = t.v * 1000] ELSE c0
        d  == Atoi(e.REQUEST_DELAY)
        c2 == IF e.REQUEST_DELAY # <<>> /\ ~d.err
              THEN [c1 EXCEPT !.RequestDelay = d.v] ELSE c1
        m  == Atoi(e.MAX_CONCURRENCY)
        c3 == IF e.MAX_CONCURRENCY # <<>> /\ ~m.err
              THEN [c2 EXCEPT !.MaxConcurrency = m.v] ELSE c2
    IN  c3

----------------------------------------------------------------------------
(* int64: four 16-bit limbs, least significant first, two's complement     *)

LimbBase == 2 ^ 16

Zero64 == <<0, 0, 0, 0>>

One64 == <<1, 0, 0, 0>>

MaxInt64 == <<65535, 65535, 65535, 32767>>

\* The sign bit.
IsNeg64(a) == a[4] >= LimbBase \div 2

\* a < b as signed 64-bit integers.
Less64(a, b) ==
    IF IsNeg64(a) # IsNeg64(b) THEN IsNeg64(a)
    ELSE \E k \in 1..4 :
            /\ a[k] < b[k]
            /\ \A j \in (k + 1)..4 : a[j] = b[j]

\* a + b on int64: the carry out of the top limb is dropped (wrap-around).
Add64(a, b) ==
    LET s1 == a[1] + b[1]
        s2 == a[2] + b[2] + (s1 \div LimbBase)
        s3 == a[3] + b[3] + (s2 \div LimbBase)
        s4 == a[4] + b[4] + (s3 \div LimbBase)
    IN  <<s1 % LimbBase, s2 % LimbBase, s3 % LimbBase, s4 % LimbBase>>

----------------------------------------------------------------------------
(* Aggregation                                                             *)

\* A Go map: a function whose domain is the set of keys present.
EmptyMap == [k \in {} |-> 0]

MapPut(m, k, v) == [x \in (DOMAIN m) \cup {k} |-> IF x = k THEN v ELSE m[x]]

\* The zero value of AggregatedData, read for a key the map does not hold.
ZeroAggregatedData ==
    [Application |-> "", Version |-> "",
     TotalRequests |-> Zero64, TotalSuccesses |-> Zero64]

\* Mutant: = in place of +=.
AccumulateOverwrite(total, x) == x

\* Mutant: only the first record of a key is counted.
AccumulateFirstOnly(total, x) == IF total = Zero64 THEN x ELSE total

\* agg.Total += d.Total
Accumulate(total, x) == Add64(total, x)

\* Mutant: the inner map is made anew for every record (no exists test).
AggregateOneRemakingInner(aggregation, d) ==
    LET agg == [Application    |-> d.Application,
                Version        |-> d.Version,
                TotalRequests  |-> Accumulate(Zero64, d.TotalRequests),
                TotalSuccesses |-> Accumulate(Zero64, d.TotalSuccesses)]
    IN  MapPut(aggregation, d.Application, MapPut(EmptyMap, d.Version, agg))

\* One iteration of the loop of aggregateData.
AggregateOne(aggregation, d) ==
    LET a1   == IF d.Application \notin DOMAIN aggregation
                THEN MapPut(aggregation, d.Application, EmptyMap)
                ELSE aggregation
        vers == a1[d.Application]
        agg0 == IF d.Version \in DOMAIN vers THEN vers[d.Version]
                ELSE ZeroAggregatedData
        agg  == [Application    |-> d.Application,
                 Version        |-> d.Version,
                 TotalRequests  |-> Accumulate(agg0.TotalRequests, d.TotalRequests),
                 TotalSuccesses |-> Accumulate(agg0.TotalSuccesses, d.TotalSuccesses)]
    IN  MapPut(a1, d.Application, MapPut(vers, d.Version, agg))

RECURSIVE AggregateFrom(_, _, _)
AggregateFrom(data, i, aggregation) ==
    IF i > Len(data) THEN aggregation
    ELSE AggregateFrom(data, i + 1, AggregateOne(aggregation, data[i]))

aggregateData(data) == AggregateFrom(data, 1, EmptyMap)

----------------------------------------------------------------------------
(* Inputs of a run                                                         *)

Str0 == <<"0">>

Str1 == <<"1">>

Str2 == <<"2">>

StrMinus1 == <<"-", "1">>

\* Values of the MAX_CONCURRENCY environment variable in the runs explored.
ConcurrencySettings == {Str0, Str1, Str2, StrMinus1}

UnsetEnvironment ==
    [HTTP_TIMEOUT |-> <<>>, REQUEST_DELAY |-> <<>>, MAX_CONCURRENCY |-> <<>>]

Environments ==
    {[HTTP_TIMEOUT |-> <<>>, REQUEST_DELAY |-> <<>>, MAX_CONCURRENCY |-> c] :
        c \in ConcurrencySettings}

HostBare == <<"a">>

HostWithScheme == SchemeHTTP \o <<"b">>

Hosts == {HostBare, HostWithScheme}

HostLists == UNION {[1..n -> Hosts] : n \in 0..MaxHosts}

\* servers.txt: the lines the scanner delivers, and whether os.Open or the
\* scanner fails (the scanner may fail after some lines).
ServerFiles == {[err |-> e, lines |-> l] : e \in BOOLEAN, l \in HostLists}

ZeroHealthResponse ==
    [Application |-> "", Version |-> "", Uptime |-> Zero64,
     RequestCount |-> Zero64, ErrorCount |-> Zero64, SuccessCount |-> Zero64]

\* Bodies a server may answer with (the first is the mock of the tests).
HealthResponses ==
    {[Application |-> "Memcache2", Version |-> "1.0.1",
      Uptime |-> <<64377, 5229, 1, 0>>,
      RequestCount |-> <<23453, 13730, 1, 0>>,
      ErrorCount |-> <<4419, 15912, 0, 0>>,
      SuccessCount |-> <<19034, 63354, 0, 0>>],
     [Application |-> "Memcache2", Version |-> "1.0.2",
      Uptime |-> One64, RequestCount |-> Zero64,
      ErrorCount |-> Zero64, SuccessCount |-> Zero64]}

\* The three ways fetchHealthData returns a non-nil error.
FetchErrors == {"unreachable", "status", "decode"}

\* What one call of fetchHealthData may return: (health, err).
FetchReturns ==
    {[health |-> ZeroHealthResponse, err |-> e] : e \in FetchErrors} \cup
    {[health |-> h, err |-> "nil"] : h \in HealthResponses}

----------------------------------------------------------------------------
(* State                                                                   *)

VARIABLES
    env,            \* the process environment
    file,           \* servers.txt
    config,         \* *Config of main
    servers,        \* []string read by main
    mpc,            \* position of main
    dataChannel,    \* buffered items of dataChannel
    chanCap,        \* cap(dataChannel)
    closes,         \* number of close(dataChannel) executed
    collectedData,  \* collectedData of main
    aggregation,    \* aggregation of main
    report,         \* the success rates main has printed
    dpc,            \* position of fetchHealthDataWithDelayAndConcurrency
    launched,       \* iterations of the range loop done
    wg,             \* counter of the WaitGroup
    semCap,         \* cap(sem)
    sem,            \* len(sem): permits taken
    tpc,            \* position of each task
    tserver,        \* local server of each task
    turl,           \* local serverURL of each task
    tret,           \* what fetchHealthData returned to each task
    fetches,        \* calls of fetchHealthData made by each task
    sent,           \* items each task has put into dataChannel
    errLog          \* "Error fetching data from ..." lines printed

vars == <<env, file, config, servers, mpc, dataChannel, chanCap, closes,
          collectedData, aggregation, report, dpc, launched, wg, semCap, sem,
          tpc, tserver, turl, tret, fetches, sent, errLog>>

mainVars ==
    <<env, file, config, servers, mpc, collectedData, aggregation, report>>

chanVars == <<dataChannel, chanCap, closes>>

dispVars == <<dpc, launched, wg, semCap>>

taskVars == <<tpc, tserver, turl, tret, fetches, sent, errLog>>

\* Indices of the entries of servers, once main has read them.
Tasks == DOMAIN tpc

NoReturn == [health |-> ZeroHealthResponse, err |-> "none"]

Init ==
    /\ env \in Environments
    /\ file \in ServerFiles
    /\ config = NewDefaultConfig
    /\ servers = <<>>
    /\ mpc = "load"
    /\ dataChannel = <<>>
    /\ chanCap = 0
    /\ closes = 0
    /\ collectedData = <<>>
    /\ aggregation = EmptyMap
    /\ report = EmptyMap
    /\ dpc = "idle"
    /\ launched = 0
    /\ wg = 0
    /\ semCap = 0
    /\ sem = 0
    /\ tpc = <<>>
    /\ tserver = <<>>
    /\ turl = <<>>
    /\ tret = <<>>
    /\ fetches = <<>>
    /\ sent = <<>>
    /\ errLog = <<>>

----------------------------------------------------------------------------
(* main                                                                    *)

\* config := LoadConfigFromEnv()
MainLoadConfig ==
    /\ mpc = "load"
    /\ config' = LoadConfigFromEnv(env)
    /\ mpc' = "read"
    /\ UNCHANGED <<env, file, servers, collectedData, aggregation, report>>
    /\ UNCHANGED <<chanVars, dispVars, sem, taskVars>>

\* Mutant: the error of readServersList is ignored.
MainReadServersIgnoringErr ==
    /\ mpc = "read"
    /\ mpc' = "spawn"
    /\ servers' = file.lines
    /\ UNCHANGED <<env, file, config, collectedData, aggregation, report>>
    /\ UNCHANGED <<chanVars, dispVars, sem, taskVars>>

\* servers, err := readServersList("servers.txt"); on an error main returns.
MainReadServers ==
    /\ mpc = "read"
    /\ servers' = file.lines
    /\ mpc' = IF file.err THEN "exit" ELSE "spawn"
    /\ UNCHANGED <<env, file, config, collectedData, aggregation, report>>
    /\ UNCHANGED <<chanVars, dispVars, sem, taskVars>>

\* Mutant: the channel is made with room for one item.
MainSpawnSmallBuffer ==
    /\ mpc = "spawn"
    /\ chanCap' = 1
    /\ dpc' = "make"
    /\ mpc' = "range"
    /\ tpc' = [i \in 1..Len(servers) |-> "none"]
    /\ tserver' = [i \in 1..Len(servers) |-> <<>>]
    /\ turl' = [i \in 1..Len(servers) |-> <<>>]
    /\ tret' = [i \in 1..Len(servers) |-> NoReturn]
    /\ fetches' = [i \in 1..Len(servers) |-> 0]
    /\ sent' = [i \in 1..Len(servers) |-> 0]
    /\ UNCHANGED <<env, file, config, servers, collectedData, aggregation, report>>
    /\ UNCHANGED <<dataChannel, closes, launched, wg, semCap, sem, errLog>>

\* dataChannel := make(chan AggregatedData, len(servers)); go fetch...(...)
MainSpawn ==
    /\ mpc = "spawn"
    /\ chanCap' = Len(servers)
    /\ dpc' = "make"
    /\ mpc' = "range"
    /\ tpc' = [i \in 1..Len(servers) |-> "none"]
    /\ tserver' = [i \in 1..Len(servers) |-> <<>>]
    /\ turl' = [i \in 1..Len(servers) |-> <<>>]
    /\ tret' = [i \in 1..Len(servers) |-> NoReturn]
    /\ fetches' = [i \in 1..Len(servers) |-> 0]
    /\ sent' = [i \in 1..Len(servers) |-> 0]
    /\ UNCHANGED <<env, file, config, servers, collectedData, aggregation, report>>
    /\ UNCHANGED <<dataChannel, closes, launched, wg, semCap, sem, errLog>>

\* for data := range dataChannel { collectedData = append(collectedData, data) }
MainReceive ==
    /\ mpc = "range"
    /\ dataChannel # <<>>
    /\ collectedData' = Append(collectedData, Head(dataChannel))
    /\ dataChannel' = Tail(dataChannel)
    /\ UNCHANGED <<env, file, config, servers, mpc, aggregation, report>>
    /\ UNCHANGED <<chanCap, closes, dispVars, sem, taskVars>>

\* Mutant: the loop ends as soon as the channel is found empty.
MainRangeEndOnEmpty ==
    /\ mpc = "range"
    /\ dataChannel = <<>>
    /\ mpc' = "aggregate"
    /\ UNCHANGED <<env, file, config, servers, collectedData, aggregation, report>>
    /\ UNCHANGED <<chanVars, dispVars, sem, taskVars>>

\* The range loop ends when the channel is closed and drained.
MainRangeEnd ==
    /\ mpc = "range"
    /\ dataChannel = <<>>
    /\ closes > 0
    /\ mpc' = "aggregate"
    /\ UNCHANGED <<env, file, config, servers, collectedData, aggregation, report>>
    /\ UNCHANGED <<chanVars, dispVars, sem, taskVars>>

\* aggregation := aggregateData(collectedData)
MainAggregate ==
    /\ mpc = "aggregate"
    /\ aggregation' = aggregateData(collectedData)
    /\ mpc' = "report"
    /\ UNCHANGED <<env, file, config, servers, collectedData, report>>
    /\ UNCHANGED <<chanVars, dispVars, sem, taskVars>>

\* successRate := float64(TotalSuccesses) / float64(TotalRequests) * 100.
\* A float64 division by zero does not panic: 0/0 is NaN and x/0 is an
\* infinity of the sign of x. A finite rate is kept as the two totals.
SuccessRate(data) ==
    [kind |-> IF data.TotalRequests # Zero64 THEN "finite"
              ELSE IF data.TotalSuccesses = Zero64 THEN "NaN"
              ELSE IF IsNeg64(data.TotalSuccesses) THEN "-Inf"
              ELSE "+Inf",
     successes |-> data.TotalSuccesses,
     requests  |-> data.TotalRequests]

\* The lines "Application: ..., Version: ..., Success Rate: ...%" of one run.
HealthReport(m) ==
    [app \in DOMAIN m |-> [ver \in DOMAIN m[app] |-> SuccessRate(m[app][ver])]]

\* The report is printed and written; main returns.
MainReport ==
    /\ mpc = "report"
    /\ report' = HealthReport(aggregation)
    /\ mpc' = "done"
    /\ UNCHANGED <<env, file, config, servers, collectedData, aggregation>>
    /\ UNCHANGED <<chanVars, dispVars, sem, taskVars>>

----------------------------------------------------------------------------
(* fetchHealthDataWithDelayAndConcurrency                                  *)

\* A panic ends the process: nothing runs after it.
Running == mpc # "crashed"

\* sem := make(chan struct{}, config.MaxConcurrency); a negative size panics
\* and the panic of a goroutine ends the process.
DispMakeSem ==
    /\ Running
    /\ dpc = "make"
    /\ IF config.MaxConcurrency < 0
       THEN /\ dpc' = "panic"
            /\ mpc' = "crashed"
            /\ UNCHANGED semCap
       ELSE /\ dpc' = "loop"
            /\ semCap' = config.MaxConcurrency
            /\ UNCHANGED mpc
    /\ UNCHANGED <<env, file, config, servers, collectedData, aggregation, report>>
    /\ UNCHANGED <<chanVars, launched, wg, sem, taskVars>>

\* One iteration of the range loop: wg.Add(1); go func(server string){...}(server)
DispLaunch ==
    /\ Running
    /\ dpc = "loop"
    /\ launched < Len(servers)
    /\ launched' = launched + 1
    /\ wg' = wg + 1
    /\ tpc' = [tpc EXCEPT ![launched + 1] = "start"]
    /\ tserver' = [tserver EXCEPT ![launched + 1] = servers[launched + 1]]
    /\ UNCHANGED <<mainVars, chanVars, dpc, semCap, sem>>
    /\ UNCHANGED <<turl, tret, fetches, sent, errLog>>

\* Mutant: the dispatcher does not wait for the tasks.
DispWaitSkipped ==
    /\ Running
    /\ dpc = "loop"
    /\ launched = Len(servers)
    /\ dpc' = "close"
    /\ UNCHANGED <<mainVars, chanVars, launched, wg, semCap, sem, taskVars>>

\* Mutant: the join and the close are reached only after a launch.
DispWaitAfterLaunch ==
    /\ Running
    /\ dpc = "loop"
    /\ launched = Len(servers)
    /\ launched > 0
    /\ wg = 0
    /\ dpc' = "close"
    /\ UNCHANGED <<mainVars, chanVars, launched, wg, semCap, sem, taskVars>>

\* The loop is over; wg.Wait() returns once the counter is zero.
DispWait ==
    /\ Running
    /\ dpc = "loop"
    /\ launched = Len(servers)
    /\ wg = 0
    /\ dpc' = "close"
    /\ UNCHANGED <<mainVars, chanVars, launched, wg, semCap, sem, taskVars>>

\* close(dataChannel)
DispClose ==
    /\ Running
    /\ dpc = "close"
    /\ closes' = closes + 1
    /\ dpc' = "returned"
    /\ UNCHANGED <<mainVars, dataChannel, chanCap, launched, wg, semCap, sem>>
    /\ UNCHANGED taskVars

----------------------------------------------------------------------------
(* The task started for one entry of servers                               *)

\* Mutant: the scheme is prepended without looking at the host.
NormalizeServerAlways(server) == SchemeHTTPS \o server

\* Mutant: only "http://" is recognised as a scheme.
NormalizeServerHttpOnly(server) ==
    IF ~HasPrefix(server, SchemeHTTP)
    THEN SchemeHTTPS \o server
    ELSE server

\* if !HasPrefix(server, "http://") && !HasPrefix(server, "https://") {...}
NormalizeServer(server) ==
    IF ~HasPrefix(server, SchemeHTTP) /\ ~HasPrefix(server, SchemeHTTPS)
    THEN SchemeHTTPS \o server
    ELSE server

\* serverURL := server + "/healthz"
ServerURL(server) == server \o HealthzPath

\* An item sent for a decoded response.
RecordOf(health) ==
    [Application    |-> health.Application,
     Version        |-> health.Version,
     TotalRequests  |-> health.RequestCount,
     TotalSuccesses |-> health.SuccessCount]

\* Mutant: the error of fetchHealthData is ignored.
FetchSucceededIgnoringErr(r) == TRUE

\* Whether the task goes on to send after fetchHealthData returned r.
FetchSucceeded(r) == r.err = "nil"

TaskNormalize(i) ==
    /\ Running
    /\ tpc[i] = "start"
    /\ tserver' = [tserver EXCEPT ![i] = NormalizeServer(tserver[i])]
    /\ turl' = [turl EXCEPT ![i] = ServerURL(NormalizeServer(tserver[i]))]
    /\ tpc' = [tpc EXCEPT ![i] = "acquire"]
    /\ UNCHANGED <<mainVars, chanVars, dispVars, sem>>
    /\ UNCHANGED <<tret, fetches, sent, errLog>>

\* Mutant: the send on sem never blocks.
TaskAcquireUnbounded(i) ==
    /\ Running
    /\ tpc[i] = "acquire"
    /\ sem' = sem + 1
    /\ tpc' = [tpc EXCEPT ![i] = "sleep"]
    /\ UNCHANGED <<mainVars, chanVars, dispVars>>
    /\ UNCHANGED <<tserver, turl, tret, fetches, sent, errLog>>

\* sem <- struct{}{} blocks while the buffer of sem is full.
TaskAcquire(i) ==
    /\ Running
    /\ tpc[i] = "acquire"
    /\ sem < semCap
    /\ sem' = sem + 1
    /\ tpc' = [tpc EXCEPT ![i] = "sleep"]
    /\ UNCHANGED <<mainVars, chanVars, dispVars>>
    /\ UNCHANGED <<tserver, turl, tret, fetches, sent, errLog>>

\* time.Sleep(config.RequestDelay)
TaskSleep(i) ==
    /\ Running
    /\ tpc[i] = "sleep"
    /\ tpc' = [tpc EXCEPT ![i] = "fetch"]
    /\ UNCHANGED <<mainVars, chanVars, dispVars, sem>>
    /\ UNCHANGED <<tserver, turl, tret, fetches, sent, errLog>>

\* Mutant: the permit is given back on the success path only.
TaskFetchLeakOnError(i) ==
    /\ Running
    /\ tpc[i] = "fetch"
    /\ \E r \in FetchReturns :
        /\ tret' = [tret EXCEPT ![i] = r]
        /\ IF FetchSucceeded(r)
           THEN /\ tpc' = [tpc EXCEPT ![i] = "send"]
                /\ UNCHANGED errLog
           ELSE /\ tpc' = [tpc EXCEPT ![i] = "wgdone"]
                /\ errLog' = Append(errLog, [url |-> turl[i], err |-> r.err])
    /\ fetches' = [fetches EXCEPT ![i] = @ + 1]
    /\ UNCHANGED <<mainVars, chanVars, dispVars, sem>>
    /\ UNCHANGED <<tserver, turl, sent>>

\* Mutant: the permit is given back right after fetchHealthData returns,
\* before the item is sent.
TaskFetchThenRelease(i) ==
    /\ Running
    /\ tpc[i] = "fetch"
    /\ sem > 0
    /\ sem' = sem - 1
    /\ \E r \in FetchReturns :
        /\ tret' = [tret EXCEPT ![i] = r]
        /\ IF FetchSucceeded(r)
           THEN /\ tpc' = [tpc EXCEPT ![i] = "send"]
                /\ UNCHANGED errLog
           ELSE /\ tpc' = [tpc EXCEPT ![i] = "wgdone"]
                /\ errLog' = Append(errLog, [url |-> turl[i], err |-> r.err])
    /\ fetches' = [fetches EXCEPT ![i] = @ + 1]
    /\ UNCHANGED <<mainVars, chanVars, dispVars>>
    /\ UNCHANGED <<tserver, turl, sent>>

\* Mutant: a failed fetch is tried once more.
TaskFetchRetrying(i) ==
    /\ Running
    /\ tpc[i] = "fetch"
    /\ \E r \in FetchReturns :
        /\ tret' = [tret EXCEPT ![i] = r]
        /\ IF FetchSucceeded(r)
           THEN /\ tpc' = [tpc EXCEPT ![i] = "send"]
                /\ UNCHANGED errLog
           ELSE IF fetches[i] = 0
           THEN /\ UNCHANGED tpc
                /\ UNCHANGED errLog
           ELSE /\ tpc' = [tpc EXCEPT ![i] = "release"]
                /\ errLog' = Append(errLog, [url |-> turl[i], err |-> r.err])
    /\ fetches' = [fetches EXCEPT ![i] = @ + 1]
    /\ UNCHANGED <<mainVars, chanVars, dispVars, sem>>
    /\ UNCHANGED <<tserver, turl, sent>>

\* health, err := fetchHealthData(serverURL, ...); on an error the task
\* prints it and returns, which runs the deferred calls.
TaskFetch(i) ==
    /\ Running
    /\ tpc[i] = "fetch"
    /\ \E r \in FetchReturns :
        /\ tret' = [tret EXCEPT ![i] = r]
        /\ IF FetchSucceeded(r)
           THEN /\ tpc' = [tpc EXCEPT ![i] = "send"]
                /\ UNCHANGED errLog
           ELSE /\ tpc' = [tpc EXCEPT ![i] = "release"]
                /\ errLog' = Append(errLog, [url |-> turl[i], err |-> r.err])
    /\ fetches' = [fetches EXCEPT ![i] = @ + 1]
    /\ UNCHANGED <<mainVars, chanVars, dispVars, sem>>
    /\ UNCHANGED <<tserver, turl, sent>>

\* dataChannel <- AggregatedData{...}: blocks while the buffer is full and
\* panics when the channel is closed.
TaskSend(i) ==
    /\ Running
    /\ tpc[i] = "send"
    /\ IF closes > 0
       THEN /\ tpc' = [tpc EXCEPT ![i] = "panic"]
            /\ mpc' = "crashed"
            /\ UNCHANGED <<dataChannel, sent>>
       ELSE /\ Len(dataChannel) < chanCap
            /\ dataChannel' = Append(dataChannel, RecordOf(tret[i].health))
            /\ sent' = [sent EXCEPT ![i] = @ + 1]
            /\ tpc' = [tpc EXCEPT ![i] = "release"]
            /\ UNCHANGED mpc
    /\ UNCHANGED <<env, file, config, servers, collectedData, aggregation, report>>
    /\ UNCHANGED <<chanCap, closes, dispVars, sem>>
    /\ UNCHANGED <<tserver, turl, tret, fetches, errLog>>

\* Mutant: the deferred receive from sem is missing.
TaskReleaseMissing(i) ==
    /\ Running
    /\ tpc[i] = "release"
    /\ tpc' = [tpc EXCEPT ![i] = "wgdone"]
    /\ UNCHANGED <<mainVars, chanVars, dispVars, sem>>
    /\ UNCHANGED <<tserver, turl, tret, fetches, sent, errLog>>

\* deferred: <-sem
TaskRelease(i) ==
    /\ Running
    /\ tpc[i] = "release"
    /\ sem > 0
    /\ sem' = sem - 1
    /\ tpc' = [tpc EXCEPT ![i] = "wgdone"]
    /\ UNCHANGED <<mainVars, chanVars, dispVars>>
    /\ UNCHANGED <<tserver, turl, tret, fetches, sent, errLog>>

\* deferred: wg.Done()
TaskDone(i) ==
    /\ Running
    /\ tpc[i] = "wgdone"
    /\ wg' = wg - 1
    /\ tpc' = [tpc EXCEPT ![i] = "done"]
    /\ UNCHANGED <<mainVars, chanVars, dpc, launched, semCap, sem>>
    /\ UNCHANGED <<tserver, turl, tret, fetches, sent, errLog>>

----------------------------------------------------------------------------
(* The program                                                             *)

Next ==
    \/ MainLoadConfig
    \/ MainReadServers
    \/ MainSpawn
    \/ MainReceive
    \/ MainRangeEnd
    \/ MainAggregate
    \/ MainReport
    \/ DispMakeSem
    \/ DispLaunch
    \/ DispWait
    \/ DispClose
    \/ \E i \in Tasks : TaskNormalize(i)
    \/ \E i \in Tasks : TaskAcquire(i)
    \/ \E i \in Tasks : TaskSleep(i)
    \/ \E i \in Tasks : TaskFetch(i)
    \/ \E i \in Tasks : TaskSend(i)
    \/ \E i \in Tasks : TaskRelease(i)
    \/ \E i \in Tasks : TaskDone(i)

Spec == Init /\ [][Next]_vars

\* The Go scheduler keeps running some goroutine while one is runnable,
\* and every call of fetchHealthData returns (the HTTP client has a timeout).
\* The steps of the dispatcher and of its tasks.
DispatcherNext ==
    \/ DispMakeSem
    \/ DispLaunch
    \/ DispWait
    \/ DispClose
    \/ \E i \in Tasks : TaskNormalize(i)
    \/ \E i \in Tasks : TaskAcquire(i)
    \/ \E i \in Tasks : TaskSleep(i)
    \/ \E i \in Tasks : TaskFetch(i)
    \/ \E i \in Tasks : TaskSend(i)
    \/ \E i \in Tasks : TaskRelease(i)
    \/ \E i \in Tasks : TaskDone(i)

\* The goroutines of the dispatcher are scheduled; main, the consumer, may
\* stay away from the channel for as long as it likes.
FairSpecLazyConsumer == Spec /\ WF_vars(DispatcherNext)

FairSpec == Spec /\ WF_vars(Next)

----------------------------------------------------------------------------
(* aggregateData on its own: main at the call, with any collectedData      *)

\* Keys that differ in the application only and in the version only.
AggKeys ==
    {<<"Memcache2", "1.0.1">>, <<"Memcache2", "1.0.2">>, <<"Redis", "1.0.1">>}

\* (requests, successes) of a record; the first two are those of the tests.
AggCounts ==
    {<<<<23453, 13730, 1, 0>>, <<19034, 63354, 0, 0>>>>,
     <<<<51712, 15258, 0, 0>>, <<2048, 12207, 0, 0>>>>,
     <<Zero64, Zero64>>,
     <<MaxInt64, One64>>}

AggRecords ==
    {[Application |-> k[1], Version |-> k[2],
      TotalRequests |-> c[1], TotalSuccesses |-> c[2]] :
        k \in AggKeys, c \in AggCounts}

DataSeqs == UNION {[1..n -> AggRecords] : n \in 0..MaxData}

InitAgg ==
    /\ env = UnsetEnvironment
    /\ file = [err |-> FALSE, lines |-> <<>>]
    /\ config = LoadConfigFromEnv(env)
    /\ servers = <<>>
    /\ mpc = "aggregate"
    /\ dataChannel = <<>>
    /\ chanCap = 0
    /\ closes = 1
    /\ collectedData \in DataSeqs
    /\ aggregation = EmptyMap
    /\ report = EmptyMap
    /\ dpc = "returned"
    /\ launched = 0
    /\ wg = 0
    /\ semCap = 0
    /\ sem = 0
    /\ tpc = <<>>
    /\ tserver = <<>>
    /\ turl = <<>>
    /\ tret = <<>>
    /\ fetches = <<>>
    /\ sent = <<>>
    /\ errLog = <<>>

NextAgg == MainAggregate \/ MainReport

SpecAgg == InitAgg /\ [][NextAgg]_vars

----------------------------------------------------------------------------
(* Vocabulary of the properties                                            *)

\* Items put into dataChannel so far: those buffered and those consumed.
Emitted == Len(dataChannel) + Len(collectedData)

Succeeded == {i \in Tasks : tret[i].err = "nil"}

Failed == {i \in Tasks : tret[i].err \in FetchErrors}

\* Tasks between sem <- struct{}{} and the deferred <-sem.
Holders == {i \in Tasks : tpc[i] \in {"sleep", "fetch", "send", "release"}}

Waiting == {i \in Tasks : tpc[i] = "acquire"}

Finished == {i \in Tasks : tpc[i] = "done"}

BatchStarted == dpc \in {"loop", "close", "returned"}

Closed == closes > 0

----------------------------------------------------------------------------
(* C1 *)

----------------------------------------------------------------------------
(* C2 *)

\* C2: in every state of a batch at most config.MaxConcurrency tasks are
\* between acquiring and releasing a permit; with MaxConcurrency = 1 no two
\* tasks are in the delay or in fetchHealthData at once.
C2_ConcurrencyBound ==
    BatchStarted =>
        /\ Cardinality(Holders) <= config.MaxConcurrency
        /\ config.MaxConcurrency = 1 =>
              Cardinality({i \in Tasks : tpc[i] \in {"sleep", "fetch"}}) <= 1

\* Every permit is taken, one task is inside fetchHealthData and another
\* is blocked on the semaphore.
C2_Witness ==
    /\ BatchStarted
    /\ config.MaxConcurrency >= 1
    /\ Cardinality(Holders) = config.MaxConcurrency
    /\ \E i \in Holders : tpc[i] = "fetch"
    /\ Waiting # {}

----------------------------------------------------------------------------
(* C3 *)

\* C3: the results stream is closed at most once, only after every entry
\* of servers has had its task launched and finished, and no task sends
\* (or is about to send) once it is closed.
C3_CloseAfterJoin ==
    /\ closes <= 1
    /\ Closed =>
          /\ launched = Len(servers)
          /\ Finished = Tasks
          /\ wg = 0
    /\ \A i \in Tasks : tpc[i] # "panic"
    /\ dpc = "returned" <=> Closed

\* The stream has been closed after two tasks ran, one of which sent.
C3_Witness ==
    /\ closes = 1
    /\ Len(servers) = 2
    /\ Finished = Tasks
    /\ Emitted >= 1

----------------------------------------------------------------------------
(* C4 *)

\* The configuration contract of the dispatcher: a positive permit count.
PositiveConcurrency == config.MaxConcurrency >= 1

\* What the batch owes every entry of servers once it has returned: one
\* call of fetchHealthData, and for a successful one its record sent.
SiblingsServed ==
    \A j \in Tasks :
        /\ fetches[j] = 1
        /\ tpc[j] = "done"
        /\ j \in Succeeded => sent[j] = 1
        /\ j \in Failed => sent[j] = 0

\* C4: with a positive permit count, whatever subset of the fetches fails,
\* the permits taken are exactly those of tasks still between acquire and
\* release (a task that failed and returned keeps none), and the batch
\* goes on to return with every entry fetched once and every successful
\* entry's record sent to the stream.
C4_FailureIsolation ==
    /\ [](BatchStarted => sem = Cardinality(Holders))
    /\ (dpc = "loop" /\ PositiveConcurrency)
          ~> (dpc = "returned" /\ launched = Len(servers) /\ SiblingsServed)

\* One permit, two entries: one fetch failed, the other task got the
\* permit as well and its record is in the stream; the batch returned.
C4_Witness ==
    /\ config.MaxConcurrency = 1
    /\ dpc = "returned"
    /\ \E i \in Failed, j \in Succeeded : tpc[i] = "done" /\ sent[j] = 1
    /\ SiblingsServed

----------------------------------------------------------------------------
(* C5 *)

RECURSIVE SuccessRecordsUpTo(_)
SuccessRecordsUpTo(n) ==
    IF n = 0 THEN <<>>
    ELSE IF n \in Succeeded
         THEN Append(SuccessRecordsUpTo(n - 1), RecordOf(tret[n].health))
         ELSE SuccessRecordsUpTo(n - 1)

LinesFor(u) == {k \in 1..Len(errLog) : errLog[k].url = u}

----------------------------------------------------------------------------
(* C6 *)

\* C6: with a positive permit count, once main has the host list the batch
\* completes: every task finishes, the stream is closed and drained, and
\* main leaves the range loop and reaches its end.
C6_BatchCompletes ==
    (mpc = "spawn" /\ PositiveConcurrency)
        ~> (/\ mpc = "done"
            /\ dpc = "returned"
            /\ Finished = Tasks
            /\ launched = Len(servers)
            /\ closes = 1
            /\ dataChannel = <<>>
            /\ Len(collectedData) = Cardinality(Succeeded))

\* Two tasks shared a single permit and main reached its end.
C6_Witness ==
    /\ mpc = "done"
    /\ config.MaxConcurrency = 1
    /\ Len(servers) = 2
    /\ Finished = Tasks

----------------------------------------------------------------------------
(* C7 *)

\* C7 as stated: the MaxConcurrency that LoadConfigFromEnv hands to the
\* dispatcher is at least 1.
C7_MaxConcurrencyPositive == mpc # "load" => config.MaxConcurrency >= 1

----------------------------------------------------------------------------
(* C8 *)

EmptyList == mpc \notin {"load", "read", "exit"} /\ servers = <<>>

\* C8: with an empty host list no task exists and nothing is fetched, sent
\* or printed; the dispatcher can pass the join as soon as its loop is
\* reached; and, the permit pool having been created, the run goes on to
\* close the stream once and to end with an empty aggregation.
C8_EmptyHostList ==
    /\ [](EmptyList =>
            /\ Tasks = {}
            /\ Emitted = 0
            /\ errLog = <<>>
            /\ wg = 0 /\ sem = 0
            /\ aggregation = EmptyMap
            /\ dpc = "loop" => ENABLED DispWait)
    /\ (EmptyList /\ dpc = "loop")
          ~> (mpc = "done" /\ closes = 1 /\ collectedData = <<>>
                /\ aggregation = EmptyMap)

\* The run over an empty, readable servers.txt has ended.
C8_Witness ==
    /\ ~file.err
    /\ servers = <<>>
    /\ mpc = "done"
    /\ closes = 1

----------------------------------------------------------------------------
(* C9 *)

Aggregated == mpc \in {"report", "done"}

KeysOfData(data) ==
    {<<data[k].Application, data[k].Version>> : k \in 1..Len(data)}

KeysOfMap(m) ==
    UNION {{<<app, ver>> : ver \in DOMAIN m[app]} : app \in DOMAIN m}

\* The int64 sum of field f over the records of data[1..n] with this key,
\* taken from the last record backwards.
RECURSIVE KeySum(_, _, _, _, _)
KeySum(data, n, app, ver, f) ==
    IF n = 0 THEN Zero64
    ELSE IF data[n].Application = app /\ data[n].Version = ver
         THEN Add64(data[n][f], KeySum(data, n - 1, app, ver, f))
         ELSE KeySum(data, n - 1, app, ver, f)

TestRecords ==
    <<[Application |-> "Memcache2", Version |-> "1.0.1",
       TotalRequests |-> <<23453, 13730, 1, 0>>,
       TotalSuccesses |-> <<19034, 63354, 0, 0>>],
      [Application |-> "Memcache2", Version |-> "1.0.1",
       TotalRequests |-> <<51712, 15258, 0, 0>>,
       TotalSuccesses |-> <<2048, 12207, 0, 0>>]>>

\* C9: the keys of the result of aggregateData are exactly the
\* (application, version) pairs of its input, and under each key the totals
\* are the int64 sums of the counts of the input records with that key;
\* the two records of the test give 6,194,800,029 and 4,951,986,778.
C9_AggregateSums ==
    Aggregated =>
        /\ KeysOfMap(aggregation) = KeysOfData(collectedData)
        /\ \A key \in KeysOfData(collectedData) :
              aggregation[key[1]][key[2]] =
                  [Application |-> key[1],
                   Version |-> key[2],
                   TotalRequests |->
                       KeySum(collectedData, Len(collectedData),
                              key[1], key[2], "TotalRequests"),
                   TotalSuccesses |->
                       KeySum(collectedData, Len(collectedData),
                              key[1], key[2], "TotalSuccesses")]
        /\ collectedData = TestRecords =>
              /\ aggregation["Memcache2"]["1.0.1"].TotalRequests
                     = <<9629, 28989, 1, 0>>
              /\ aggregation["Memcache2"]["1.0.1"].TotalSuccesses
                     = <<21082, 10025, 1, 0>>

\* aggregateData has run on the two records of the test.
C9_Witness ==
    /\ Aggregated
    /\ collectedData = TestRecords
    /\ DOMAIN aggregation = {"Memcache2"}

----------------------------------------------------------------------------
(* C10 *)

Permuted(data) ==
    {[k \in 1..Len(data) |-> data[p[k]]] :
        p \in {q \in [1..Len(data) -> 1..Len(data)] :
                  \A a, b \in 1..Len(data) : q[a] = q[b] => a = b}}

\* C10: aggregateData gives the same result on every permutation of its
\* input.
C10_OrderIndependent ==
    Aggregated =>
        \A data \in Permuted(collectedData) : aggregateData(data) = aggregation

\* aggregateData has run on three records, two of one key with different
\* counts and one of another key.
C10_Witness ==
    /\ Aggregated
    /\ Len(collectedData) = 3
    /\ collectedData[1].Application = collectedData[3].Application
    /\ collectedData[1].Version = collectedData[3].Version
    /\ collectedData[1].TotalRequests # collectedData[3].TotalRequests
    /\ collectedData[2].Application # collectedData[1].Application
    /\ Cardinality(KeysOfMap(aggregation)) = 2

----------------------------------------------------------------------------
(* C11 *)

\* The entry of a merged map under a key both maps hold.
SumTotals(x, y) ==
    [Application    |-> x.Application,
     Version        |-> x.Version,
     TotalRequests  |-> Add64(x.TotalRequests, y.TotalRequests),
     TotalSuccesses |-> Add64(x.TotalSuccesses, y.TotalSuccesses)]

VersionsIn(m, app) == IF app \in DOMAIN m THEN DOMAIN m[app] ELSE {}

\* Two results summed key by key; a key of one of them only is kept as is.
MergeAggregations(m1, m2) ==
    [app \in (DOMAIN m1) \cup (DOMAIN m2) |->
        [ver \in VersionsIn(m1, app) \cup VersionsIn(m2, app) |->
            IF ver \in VersionsIn(m1, app) /\ ver \in VersionsIn(m2, app)
            THEN SumTotals(m1[app][ver], m2[app][ver])
            ELSE IF ver \in VersionsIn(m1, app) THEN m1[app][ver]
                 ELSE m2[app][ver]]]

\* C11: however the input of aggregateData is cut into a sequence A
\* followed by a sequence B, aggregating A and B separately and summing the
\* two results per key gives the result of aggregating the whole.
C11_MergeCompatible ==
    Aggregated =>
        \A k \in 0..Len(collectedData) :
            MergeAggregations(
                aggregateData(SubSeq(collectedData, 1, k)),
                aggregateData(SubSeq(collectedData, k + 1, Len(collectedData))))
              = aggregation

\* Three records aggregated: the first and the last share a key, the one
\* in the middle has the same application under another version.
C11_Witness ==
    /\ Aggregated
    /\ Len(collectedData) = 3
    /\ collectedData[1].Application = collectedData[3].Application
    /\ collectedData[1].Version = collectedData[3].Version
    /\ collectedData[2].Application = collectedData[1].Application
    /\ collectedData[2].Version # collectedData[1].Version
    /\ collectedData[1].TotalRequests # Zero64

----------------------------------------------------------------------------
(* C12 *)

\* The accumulator of field f under a key after the first n records
\* (zero while the key is absent).
TotalAfter(n, key, f) ==
    LET m == aggregateData(SubSeq(collectedData, 1, n))
    IN  IF key[1] \in DOMAIN m /\ key[2] \in DOMAIN m[key[1]]
        THEN m[key[1]][key[2]][f]
        ELSE Zero64

\* C12 as stated: with non-negative counts no accumulator ever becomes
\* negative or smaller than it was before a record was added.
C12_NoWrapAround ==
    Aggregated =>
        \A n \in 1..Len(collectedData) :
            \A key \in KeysOfData(collectedData) :
                \A f \in {"TotalRequests", "TotalSuccesses"} :
                    /\ ~IsNeg64(TotalAfter(n, key, f))
                    /\ ~Less64(TotalAfter(n, key, f), TotalAfter(n - 1, key, f))

----------------------------------------------------------------------------
(* The normalization of the tasks alone: the dispatcher launches its tasks *)
(* over a wider set of lines of servers.txt and each task builds its URL.  *)

HostHTTPS == SchemeHTTPS \o <<"c">>

\* A line that is already a status URL.
HostStatusURL == SchemeHTTPS \o <<"a">> \o HealthzPath

\* Lines that only look like they carry a scheme.
HostOneSlash == <<"h", "t", "t", "p", ":", "/", "a">>

HostOtherScheme == <<"f", "t", "p", ":", "/", "/", "a">>

\* scanner.Text() of a blank line.
HostEmpty == <<>>

NormHosts ==
    {HostBare, HostWithScheme, HostHTTPS, HostStatusURL, HostOneSlash,
     HostOtherScheme, HostEmpty}

NormHostLists == UNION {[1..n -> NormHosts] : n \in 0..MaxHosts}

\* main has read servers and started the dispatcher, which has made sem.
InitNorm ==
    /\ env = UnsetEnvironment
    /\ servers \in NormHostLists
    /\ file = [err |-> FALSE, lines |-> servers]
    /\ config = LoadConfigFromEnv(env)
    /\ mpc = "range"
    /\ dataChannel = <<>>
    /\ chanCap = Len(servers)
    /\ closes = 0
    /\ collectedData = <<>>
    /\ aggregation = EmptyMap
    /\ report = EmptyMap
    /\ dpc = "loop"
    /\ launched = 0
    /\ wg = 0
    /\ semCap = config.MaxConcurrency
    /\ sem = 0
    /\ tpc = [i \in 1..Len(servers) |-> "none"]
    /\ tserver = [i \in 1..Len(servers) |-> <<>>]
    /\ turl = [i \in 1..Len(servers) |-> <<>>]
    /\ tret = [i \in 1..Len(servers) |-> NoReturn]
    /\ fetches = [i \in 1..Len(servers) |-> 0]
    /\ sent = [i \in 1..Len(servers) |-> 0]
    /\ errLog = <<>>

NextNorm ==
    \/ DispLaunch
    \/ \E i \in Tasks : TaskNormalize(i)

SpecNorm == InitNorm /\ [][NextNorm]_vars

\* The tasks that have built their URL.
Normalized == {i \in Tasks : tpc[i] \notin {"none", "start"}}

\* C13 (as stated): normalizing (scheme prefix plus status path) an address
\* that is already normalized returns the same address, and normalizing never
\* changes an element of the caller's host list.
C13_NormalizationIdempotent ==
    /\ \A i \in Normalized : ServerURL(NormalizeServer(turl[i])) = turl[i]
    /\ servers = file.lines

\* C13 (amended): the scheme step is idempotent, the status path is appended
\* once more by every application, and the caller's host list is never
\* changed: a task works on its own copy of the entry.
C13_SchemeStepIdempotent ==
    /\ \A i \in Normalized :
            /\ NormalizeServer(tserver[i]) = tserver[i]
            /\ ServerURL(NormalizeServer(turl[i])) = turl[i] \o HealthzPath
    /\ servers = file.lines

C13_Witness ==
    \E i \in Normalized :
        /\ servers[i] = HostStatusURL
        /\ tserver[i] = HostStatusURL
        /\ turl[i] = HostStatusURL \o HealthzPath
        /\ \E j \in Normalized : servers[j] = HostBare /\ tserver[j] # servers[j]

\* The number of places of s where p occurs.
CountOcc(s, p) ==
    Cardinality({k \in 1..Len(s) :
        /\ k + Len(p) - 1 <= Len(s)
        /\ SubSeq(s, k, k + Len(p) - 1) = p})

SchemeMark == <<":", "/", "/">>

Schemed(h) == HasPrefix(h, SchemeHTTP) \/ HasPrefix(h, SchemeHTTPS)

\* C14: a host that starts with http:// or https:// keeps its scheme, neither
\* changed nor duplicated; a bare host gets https:// prepended exactly once;
\* in both cases /healthz is appended exactly once to form the fetched URL.
C14_NormalizedURL ==
    \A i \in Normalized :
        /\ Schemed(servers[i]) =>
                /\ tserver[i] = servers[i]
                /\ CountOcc(turl[i], SchemeMark) =
                       CountOcc(servers[i], SchemeMark)
        /\ ~Schemed(servers[i]) =>
                /\ tserver[i] = SchemeHTTPS \o servers[i]
                /\ CountOcc(turl[i], SchemeMark) =
                       CountOcc(servers[i], SchemeMark) + 1
        /\ turl[i] = tserver[i] \o HealthzPath
        /\ CountOcc(turl[i], HealthzPath) =
               CountOcc(servers[i], HealthzPath) + 1

C14_Witness ==
    \E i, j \in Normalized :
        /\ servers[i] = HostHTTPS
        /\ turl[i] = <<"h", "t", "t", "p", "s", ":", "/", "/", "c",
                       "/", "h", "e", "a", "l", "t", "h", "z">>
        /\ servers[j] = HostBare
        /\ turl[j] = <<"h", "t", "t", "p", "s", ":", "/", "/", "a",
                       "/", "h", "e", "a", "l", "t", "h", "z">>

----------------------------------------------------------------------------
(* LoadConfigFromEnv alone: main loads its configuration from a wider set  *)
(* of environments.                                                        *)

Str15 == <<"1", "5">>

Str500 == <<"5", "0", "0">>

Str3 == <<"3">>

StrPlus3 == <<"+", "3">>

StrX == <<"x">>

Str1X == <<"1", "x">>

StrSign == <<"-">>

StrSpace3 == <<" ", "3">>

\* Values of one variable: unset or empty, the values of the tests, signed
\* numbers, and texts strconv.Atoi rejects.
ConfigSettings ==
    {<<>>, Str15, Str500, Str3, StrPlus3, StrMinus1, Str0, StrX, Str1X,
     StrSign, StrSpace3}

ConfigEnvironments ==
    {[HTTP_TIMEOUT |-> t, REQUEST_DELAY |-> d, MAX_CONCURRENCY |-> c] :
        t \in ConfigSettings, d \in ConfigSettings, c \in ConfigSettings}

InitConfig ==
    /\ env \in ConfigEnvironments
    /\ file = [err |-> TRUE, lines |-> <<>>]
    /\ config = NewDefaultConfig
    /\ servers = <<>>
    /\ mpc = "load"
    /\ dataChannel = <<>>
    /\ chanCap = 0
    /\ closes = 0
    /\ collectedData = <<>>
    /\ aggregation = EmptyMap
    /\ report = EmptyMap
    /\ dpc = "idle"
    /\ launched = 0
    /\ wg = 0
    /\ semCap = 0
    /\ sem = 0
    /\ tpc = <<>>
    /\ tserver = <<>>
    /\ turl = <<>>
    /\ tret = <<>>
    /\ fetches = <<>>
    /\ sent = <<>>
    /\ errLog = <<>>

NextConfig == MainLoadConfig

SpecConfig == InitConfig /\ [][NextConfig]_vars

\* The settings that are decimal integers, and the integer each one writes.
ParseableSettings == {Str15, Str500, Str3, StrPlus3, StrMinus1, Str0}

IntegerOf(s) ==
    CASE s = Str15 -> 15 [] s = Str500 -> 500 [] s = Str3 -> 3
      [] s = StrPlus3 -> 3 [] s = StrMinus1 -> 0 - 1 [] s = Str0 -> 0

\* C15: each of HTTP_TIMEOUT (seconds), REQUEST_DELAY (milliseconds) and
\* MAX_CONCURRENCY (count) replaces exactly its own field when it is set to a
\* parseable integer; unset, empty or unparseable, it leaves that field at its
\* default (10 s, 200 ms, 5), whatever the other two variables hold.
C15_LoadConfigPerField ==
    mpc = "read" =>
        /\ config.HTTPTimeout =
               IF env.HTTP_TIMEOUT \in ParseableSettings
               THEN IntegerOf(env.HTTP_TIMEOUT) * 1000 ELSE 10000
        /\ config.RequestDelay =
               IF env.REQUEST_DELAY \in ParseableSettings
               THEN IntegerOf(env.REQUEST_DELAY) ELSE 200
        /\ config.MaxConcurrency =
               IF env.MAX_CONCURRENCY \in ParseableSettings
               THEN IntegerOf(env.MAX_CONCURRENCY) ELSE 5

C15_Witness ==
    /\ mpc = "read"
    /\ env.HTTP_TIMEOUT = Str1X
    /\ env.REQUEST_DELAY = Str500
    /\ env.MAX_CONCURRENCY = <<>>
    /\ config = [HTTPTimeout |-> 10000, RequestDelay |-> 500,
                 MaxConcurrency |-> 5]

----------------------------------------------------------------------------
(* C16 *)

\* The steps of task i, told by what they change.
StepOf(i) == tpc'[i] # tpc[i]

AcquireStep(i) == StepOf(i) /\ sem' = sem + 1

DelayStep(i) == StepOf(i) /\ tpc[i] = "sleep"

FetchStep(i) == fetches'[i] = fetches[i] + 1

EmitStep(i) == sent'[i] = sent[i] + 1

ReleaseStep(i) == StepOf(i) /\ sem' = sem - 1

\* C16 (as stated): within a task the steps come in the order normalize,
\* acquire permit, delay, fetch, release permit, emit: a task emits only
\* after its fetch and after it has given its permit back.
C16_ReleaseBeforeEmit ==
    [][\A i \in Tasks :
          EmitStep(i) => fetches[i] = 1 /\ i \notin Holders]_vars

\* C16 (amended): within a task the steps come in the order normalize,
\* acquire permit, delay, fetch, emit (after a successful fetch only),
\* release permit: the permit is taken before the delay and the fetch and is
\* still held while the task emits; the permits taken are exactly those of
\* the tasks between their acquire and their release.
C16_TaskOrder ==
    /\ [](sem = Cardinality(Holders))
    /\ [][\A i \in Tasks :
            /\ AcquireStep(i) =>
                    /\ turl[i] = ServerURL(NormalizeServer(servers[i]))
                    /\ fetches[i] = 0
                    /\ tpc'[i] = "sleep"
            /\ DelayStep(i) =>
                    /\ i \in Holders
                    /\ fetches[i] = 0
                    /\ tpc'[i] = "fetch"
                    /\ sem' = sem
            /\ FetchStep(i) =>
                    /\ i \in Holders
                    /\ tpc[i] = "fetch"
                    /\ fetches[i] = 0
                    /\ sent[i] = 0
                    /\ sem' = sem
            /\ EmitStep(i) =>
                    /\ fetches[i] = 1
                    /\ tret[i].err = "nil"
                    /\ sent[i] = 0
                    /\ i \in Holders
                    /\ sem' = sem
                    /\ i \in Holders'
            /\ ReleaseStep(i) =>
                    /\ fetches[i] = 1
                    /\ sent[i] = (IF tret[i].err = "nil" THEN 1 ELSE 0)
                    /\ sent'[i] = sent[i]
                    /\ i \notin Holders'
       ]_vars

\* One task holds its permit right after emitting while another has failed
\* and given its permit back without emitting.
C16_Witness ==
    \E i, j \in Tasks :
        /\ tpc[i] = "release"
        /\ sent[i] = 1
        /\ sem = 1
        /\ tpc[j] \in {"wgdone", "done"}
        /\ tret[j].err \in FetchErrors
        /\ sent[j] = 0

----------------------------------------------------------------------------
(* C17 *)

\* The tasks the dispatcher has started.
Launched == {i \in Tasks : tpc[i] # "none"}

\* C17: fetchHealthData is called exactly once per entry of servers,
\* duplicates included, whether the call succeeds or fails: one task is
\* started per entry, no task calls it twice, and when the dispatcher has
\* joined its tasks every entry has had its one call.
C17_OneFetchPerEntry ==
    /\ \A i \in Tasks : fetches[i] <= 1
    /\ \A i \in Tasks : fetches[i] = 1 <=> tret[i] # NoReturn
    /\ \A i \in Tasks :
            fetches[i] = 1 => turl[i] = ServerURL(NormalizeServer(servers[i]))
    /\ BatchStarted =>
            /\ Tasks = 1..Len(servers)
            /\ Launched = 1..launched
            /\ launched <= Len(servers)
    /\ Len(errLog) = Cardinality(Failed)
    /\ dpc \in {"close", "returned"} =>
            \A i \in 1..Len(servers) : i \in Tasks /\ fetches[i] = 1

\* A duplicated host whose first call failed and whose second succeeded.
C17_Witness ==
    /\ dpc = "returned"
    /\ Len(servers) = 2
    /\ servers[1] = servers[2]
    /\ tret[1].err \in FetchErrors
    /\ tret[2].err = "nil"
    /\ fetches = <<1, 1>>

----------------------------------------------------------------------------
(* C18 *)

\* C18: when readServersList fails, main stops before any fetch: the
\* dispatcher is not started, no task exists, no permit is taken, nothing is
\* sent, closed, collected or aggregated, and no report is produced.
C18_HaltOnListFailure ==
    /\ file.err =>
            /\ mpc \in {"load", "read", "exit"}
            /\ dpc = "idle"
            /\ Tasks = {}
            /\ launched = 0
            /\ wg = 0
            /\ sem = 0
            /\ semCap = 0
            /\ chanCap = 0
            /\ dataChannel = <<>>
            /\ closes = 0
            /\ collectedData = <<>>
            /\ errLog = <<>>
            /\ aggregation = EmptyMap
    /\ mpc = "exit" => file.err

\* main has returned on a scanner error met after two lines.
C18_Witness ==
    /\ mpc = "exit"
    /\ file.err
    /\ Len(servers) = 2

----------------------------------------------------------------------------
(* C19 *)

\* main is at or past the call of aggregateData.
Aggregating == mpc \in {"aggregate", "report", "done"}

\* C19: the aggregation map is touched by main alone and only after the
\* results stream is closed and drained: when main aggregates, the dispatcher
\* has returned and every task has ended; the map changes in no step of a
\* task or of the dispatcher, and it is empty until main aggregates.
C19_AggregationAfterDrain ==
    /\ [](Aggregating =>
              /\ Closed
              /\ dataChannel = <<>>
              /\ dpc = "returned"
              /\ Tasks = 1..Len(servers)
              /\ Tasks \subseteq Finished
              /\ wg = 0
              /\ sem = 0)
    /\ [](aggregation # EmptyMap => mpc \in {"report", "done"})
    /\ [][
            /\ aggregation' # aggregation =>
                    /\ mpc = "aggregate"
                    /\ aggregation' = aggregateData(collectedData)
            /\ (tpc' # tpc \/ dpc' # dpc \/ dataChannel' # dataChannel) =>
                    /\ aggregation' = aggregation
                    /\ ~Aggregating
                    /\ ~Aggregating'
       ]_vars

\* main has aggregated the items of two ended tasks.
C19_Witness ==
    /\ mpc = "report"
    /\ aggregation # EmptyMap
    /\ Len(collectedData) = 2
    /\ Cardinality(Finished) = 2

----------------------------------------------------------------------------
(* C20 *)

\* The tasks about to send their item.
Sending == {i \in Tasks : tpc[i] = "send"}

\* C20: the results stream has room for one item per host, so it never holds
\* more items than there are hosts and a task that is about to emit always
\* finds room: no task waits for the consumer, with or without a permit, and
\* with a positive permit count the batch completes whatever the consumer
\* does before the stream is closed.
C20_NoBlockedEmit ==
    /\ [](dpc # "idle" => chanCap = Len(servers))
    /\ [](Len(dataChannel) <= Len(servers))
    /\ [](Emitted + Cardinality(Sending) <= chanCap)
    /\ [](\A i \in Sending :
              /\ i \in Holders
              /\ closes = 0
              /\ Len(dataChannel) < chanCap)
    /\ (dpc = "loop" /\ PositiveConcurrency)
           ~> (dpc = "returned" /\ Finished = Tasks /\ sem = 0)

\* The batch is over and closed with every item still in the buffer, which
\* is full: the consumer has read nothing.
C20_Witness ==
    /\ dpc = "returned"
    /\ Closed
    /\ collectedData = <<>>
    /\ Len(servers) = 2
    /\ Len(dataChannel) = chanCap

----------------------------------------------------------------------------
(* C21 *)

\* C21: the permits taken are exactly those of the tasks that have acquired
\* and not yet released; a permit is taken only by a task that holds none and
\* has not held one before, and given back only by a task that holds one, on
\* the success path after its send and on the failure path after its failed
\* fetch; permits taken are always given back, and when the batch is over all
\* config.MaxConcurrency permits are free.
C21_PermitConservation ==
    /\ [](/\ sem = Cardinality(Holders)
          /\ sem >= 0
          /\ BatchStarted => sem <= semCap /\ semCap = config.MaxConcurrency
          /\ dpc \in {"close", "returned"} =>
                 /\ Holders = {}
                 /\ semCap - sem = config.MaxConcurrency)
    /\ [][
            /\ sem' # sem =>
                    \E i \in Tasks :
                        /\ AcquireStep(i) \/ ReleaseStep(i)
                        /\ \A j \in Tasks \ {i} : tpc'[j] = tpc[j]
            /\ \A i \in Tasks :
                    /\ AcquireStep(i) =>
                            /\ i \notin Holders
                            /\ i \in Holders'
                            /\ fetches[i] = 0
                    /\ ReleaseStep(i) =>
                            /\ i \in Holders
                            /\ i \notin Holders'
                            /\ fetches[i] = 1
                            /\ sent[i] = (IF i \in Succeeded THEN 1 ELSE 0)
                    /\ (i \in Holders /\ i \notin Holders') => ReleaseStep(i)
                    /\ (i \notin Holders /\ i \in Holders') => AcquireStep(i)
       ]_vars
    /\ (sem > 0) ~> (sem = 0)

\* The batch is over: a failed task and a successful one have shared the one
\* permit, which is free again.
C21_Witness ==
    /\ dpc = "returned"
    /\ semCap = 1
    /\ sem = 0
    /\ \E i, j \in Finished : i \in Failed /\ j \in Succeeded

----------------------------------------------------------------------------
(* C22 *)

\* C22: for a key whose TotalRequests is 0 the report gives a defined
\* success rate (a number such as 0%, or "no data"), never the outcome of a
\* division by zero.
C22_ZeroRequestsDefined ==
    mpc = "done" =>
        \A app \in DOMAIN report : \A ver \in DOMAIN report[app] :
            aggregation[app][ver].TotalRequests = Zero64 =>
                report[app][ver].kind \notin {"NaN", "+Inf", "-Inf"}

====
